---- MODULE Spec2Model ----
(***************************************************************************)
(* A model of the node-mavlink codec (class mavlink): the definition       *)
(* loader, the layout and CRC-seed compiler, the frame builder             *)
(* (createMessage) and the byte-driven frame parser (parse / parseChar).   *)
(* Bytes are naturals below 256, buffers are sequences of bytes, strings   *)
(* that reach the wire are sequences of character codes.                   *)
(***************************************************************************)
EXTENDS Integers, Sequences, FiniteSets, TLC

VARIABLES
    version,            \* this.version
    sysid,              \* this.sysid
    compid,             \* this.compid
    definitions,        \* this.definitions: the definition names to load
    buffer,             \* this.buffer: the bytes stored below bufferIndex
    bufferIndex,        \* this.bufferIndex
    messageLength,      \* this.messageLength
    sequence,           \* this.sequence (send counter)
    lastCounter,        \* this.lastCounter (last accepted sequence byte)
    messagesByID,       \* this.messagesByID
    messagesByName,     \* this.messagesByName
    messageChecksums,   \* this.messageChecksums
    enums,              \* this.enums
    pending,            \* indices of definitions whose readFile callback is outstanding
    parsed,             \* the closure variable "parsed" of loadDefinitions
    listeners,          \* consumers registered with on("ready")
    notified,           \* how often each consumer's "ready" listener has run
    readyCount,         \* how often emit("ready") has run
    emitted,            \* the events emitted by the last operation, in order
    packet,             \* the frame the last operation validated at a packet's end, or << >>
    fed,                \* the bytes handed to parse by the latest call of it, or << >>
    thrown,             \* the exception the last operation ended with, or "none"
    op,                 \* the last operation
    cbMode,             \* what the callback given to createMessage does with the frame
    cbFrame,            \* the frame handed to the callback by the last createMessage, or << >>
    cbData,             \* the arguments of the last createMessage
    lastSeqByte,        \* sequence byte of the latest frame handed to a callback, -1 if none
    prevSeqByte         \* sequence byte of the frame handed over before that, -1 if none

configVars  == << version, sysid, compid, definitions, cbMode >>
parserVars  == << buffer, bufferIndex, messageLength, lastCounter, packet, fed >>
builderVars == << sequence, cbFrame, cbData, lastSeqByte, prevSeqByte >>
catalogVars == << messagesByID, messagesByName, messageChecksums, enums >>
loaderVars  == << pending, parsed, readyCount, notified >>

vars == << configVars, parserVars, builderVars, catalogVars, loaderVars, listeners,
           emitted, thrown, op >>

-----------------------------------------------------------------------------
(* Bounds of the model.                                                    *)

\* Consumers that may register for "ready".
MaxConsumers == 2
\* The byte-wise feed stops offering bytes to a frame that already holds this many.
MaxStored == 9

-----------------------------------------------------------------------------
(* Bit operations on naturals (JavaScript ^, <<, >> on small non-negative  *)
(* operands).                                                              *)

RECURSIVE BitXor(_, _)
BitXor(a, b) ==
    IF a = 0 THEN b
    ELSE IF b = 0 THEN a
    ELSE ((a + b) % 2) + 2 * BitXor(a \div 2, b \div 2)

\* tmp = (tmp ^ (tmp << 4)) & 0xFF
smear(tmp) == BitXor(tmp, tmp * 16) % 256

\* checksum = ((checksum >> 8) ^ (tmp << 8) ^ (tmp << 3) ^ (tmp >> 4)) & 0xFFFF
mix(checksum, tmp) ==
    BitXor(BitXor(BitXor(checksum \div 256, tmp * 256), tmp * 8), tmp \div 16) % 65536

\* One round of the loop of calculateChecksum.
\* A variant of checksumStep that drops the top bit of the byte it accumulates.
checksumStepMasked(checksum, byte) ==
    mix(checksum, smear(BitXor(byte % 128, checksum % 256)))

checksumStep(checksum, byte) == mix(checksum, smear(BitXor(byte, checksum % 256)))

\* The loop of calculateChecksum from byte i on. The round's value is masked to 16
\* bits, so the test only makes the round's value known before the next round starts.
RECURSIVE checksumFrom(_, _, _)
checksumFrom(checksum, buf, i) ==
    IF i > Len(buf) THEN checksum
    ELSE LET next == checksumStep(checksum, buf[i])
         IN  IF next < 65536 THEN checksumFrom(next, buf, i + 1) ELSE -1

\* calculateChecksum: X25 checksum of a buffer.
calculateChecksum(buf) == checksumFrom(65535, buf, 1)

\* buffer.readUInt16LE(pos) on a 0-based buffer held as a 1-based sequence.
readUInt16LE(buf, pos) == buf[pos + 1] + 256 * buf[pos + 2]

-----------------------------------------------------------------------------
(* The definition documents handed to the loader: the parsed XML trees.    *)
(* A field's type token "base" or "base[N]" is held split, as every use in *)
(* the source splits it: dim = 0 stands for a token without brackets.      *)

Fld(n, b, d) == [name |-> n, base |-> b, dim |-> d]

Msg(i, n, f) == [id |-> i, name |-> n, field |-> f]

\* The messages of each definition file, in document order.
FileMessages(f) ==
    CASE f = "common" ->
            << Msg(0, "HB", << Fld("mavlink_version", "uint8_t_mavlink_version", 0) >>),
               Msg(1, "A",  << Fld("x", "int8_t", 0), Fld("y", "uint16_t", 0) >>),
               Msg(2, "B",  << Fld("s", "char", 2), Fld("v", "uint8_t", 0) >>),
               Msg(3, "C",  << Fld("t", "uint64_t", 0) >>) >>
      [] f = "ardupilotmega" ->
            << Msg(4, "D",  << Fld("x", "uint8_t", 0) >>) >>
      [] f = "custom" ->
            << Msg(1, "A2", << Fld("y", "uint16_t", 0) >>),
               Msg(5, "B",  << Fld("x", "uint8_t", 0) >>) >>

\* The enums of each definition file (names only: the codec never reads them).
FileEnums(f) ==
    CASE f = "common" -> << "MAV_TYPE", "MAV_STATE" >>
      [] f = "ardupilotmega" -> << "LIMITS_STATE" >>
      [] f = "custom" -> << "CUSTOM_MODE" >>

\* The character codes of the identifiers of the documents above (new Buffer(string)).
CharCodes(s) ==
    CASE s = "HB" -> << 72, 66 >>
      [] s = "A"  -> << 65 >>
      [] s = "B"  -> << 66 >>
      [] s = "C"  -> << 67 >>
      [] s = "D"  -> << 68 >>
      [] s = "A2" -> << 65, 50 >>
      [] s = "mavlink_version" ->
            << 109, 97, 118, 108, 105, 110, 107, 95, 118, 101, 114, 115, 105, 111, 110 >>
      [] s = "x" -> << 120 >>
      [] s = "y" -> << 121 >>
      [] s = "s" -> << 115 >>
      [] s = "t" -> << 116 >>
      [] s = "v" -> << 118 >>
      [] s = "uint8_t"  -> << 117, 105, 110, 116, 56, 95, 116 >>
      [] s = "int8_t"   -> << 105, 110, 116, 56, 95, 116 >>
      [] s = "uint16_t" -> << 117, 105, 110, 116, 49, 54, 95, 116 >>
      [] s = "int16_t"  -> << 105, 110, 116, 49, 54, 95, 116 >>
      [] s = "uint32_t" -> << 117, 105, 110, 116, 51, 50, 95, 116 >>
      [] s = "int32_t"  -> << 105, 110, 116, 51, 50, 95, 116 >>
      [] s = "uint64_t" -> << 117, 105, 110, 116, 54, 52, 95, 116 >>
      [] s = "int64_t"  -> << 105, 110, 116, 54, 52, 95, 116 >>
      [] s = "char"     -> << 99, 104, 97, 114 >>

-----------------------------------------------------------------------------
(* Layout and CRC-seed compiler.                                           *)

\* fieldTypeLength: the size of the field's element type.
fieldTypeLength(f) ==
    CASE f.base = "float"    -> 4
      [] f.base = "double"   -> 8
      [] f.base = "char"     -> 1
      [] f.base = "int8_t"   -> 1
      [] f.base = "uint8_t"  -> 1
      [] f.base = "uint8_t_mavlink_version" -> 1
      [] f.base = "int16_t"  -> 2
      [] f.base = "uint16_t" -> 2
      [] f.base = "int32_t"  -> 4
      [] f.base = "uint32_t" -> 4
      [] f.base = "int64_t"  -> 8
      [] f.base = "uint64_t" -> 8

\* fieldLength: element size times array size.
fieldLength(f) == IF f.dim = 0 THEN fieldTypeLength(f) ELSE fieldTypeLength(f) * f.dim

\* The type corrections at the head of orderFields' loop.
correctType(b) ==
    IF b = "uint8_t_mavlink_version" THEN "uint8_t"
    ELSE IF b = "array" THEN "int8_t"
    ELSE b

\* "Calculate some useful lengths" for a field whose type was corrected.
withLengths(f, i) ==
    [name |-> f.name, base |-> f.base, dim |-> f.dim,
     initialPos  |-> i - 1,
     length      |-> fieldLength(f),
     typeLength  |-> fieldTypeLength(f),
     arrayLength |-> fieldLength(f) \div fieldTypeLength(f)]

\* The first loop of orderFields on field i of the document's field list.
annotateField(fields, i) ==
    withLengths([fields[i] EXCEPT !.base = correctType(fields[i].base)], i)

\* The comparator handed to sort by orderFields, as "a goes before b".
sortsBefore(a, b) ==
    IF a.typeLength = b.typeLength THEN a.initialPos < b.initialPos
    ELSE b.typeLength < a.typeLength

RECURSIVE sortFields(_)
sortFields(fs) ==
    IF fs = {} THEN << >>
    ELSE LET first == CHOOSE a \in fs : \A b \in fs \ {a} : sortsBefore(a, b)
         IN  << first >> \o sortFields(fs \ {first})

RECURSIVE sumLength(_, _)
sumLength(fields, i) ==
    IF i > Len(fields) THEN 0 ELSE fields[i].length + sumLength(fields, i + 1)

\* orderFields: annotate the fields, total the payload length, sort by type size.
orderFields(message) ==
    [id |-> message.id, name |-> message.name, obj |-> message.obj,
     payloadLength |->
        sumLength([i \in 1..Len(message.field) |-> annotateField(message.field, i)], 1),
     field |->
        sortFields({annotateField(message.field, i) : i \in 1..Len(message.field)})]

RECURSIVE checksumString(_, _)
checksumString(fields, i) ==
    IF i > Len(fields) THEN << >>
    ELSE CharCodes(fields[i].base) \o << 32 >> \o CharCodes(fields[i].name) \o << 32 >>
         \o (IF fields[i].dim # 0 THEN << fields[i].dim >> ELSE << >>)
         \o checksumString(fields, i + 1)

\* (checksum & 0xFF) ^ (checksum >> 8)
foldChecksum(checksum) == BitXor(checksum % 256, checksum \div 256)

\* calculateMessageChecksum on an ordered message: the folded CRC of its signature.
calculateMessageChecksum(ordered) ==
    foldChecksum(calculateChecksum(CharCodes(ordered.name) \o << 32 >>
                                   \o checksumString(ordered.field, 1)))

-----------------------------------------------------------------------------
(* The catalog.                                                            *)

\* A JavaScript object read at a key it may lack: undefined is held as the default.
Lookup(map, key, default) == IF key \in DOMAIN map THEN map[key] ELSE default

\* addMessage: enter the message under its id and under its name.
addMessage(cat, message) ==
    [cat EXCEPT !.byID   = (message.id :> message) @@ cat.byID,
                !.byName = (message.name :> message) @@ cat.byName]

\* The v1.0 branch of the loop of addMessages, on the message orderFields has ordered
\* in place.
addPressed(cat, pressed) ==
    addMessage([cat EXCEPT !.sums = (pressed.id :> calculateMessageChecksum(pressed))
                                    @@ cat.sums],
               pressed)

\* The body of the loop of addMessages for one message of a document.
addOneMessage(cat, message) ==
    IF version = "v1.0" THEN addPressed(cat, orderFields(message))
    ELSE addMessage(cat, message)

RECURSIVE addMessagesFrom(_, _, _, _)
addMessagesFrom(cat, messages, file, j) ==
    IF j > Len(messages) THEN cat
    ELSE addMessagesFrom(
            addOneMessage(cat, [id |-> messages[j].id, name |-> messages[j].name,
                                field |-> messages[j].field, obj |-> << file, j >>]),
            messages, file, j + 1)

\* addMessages: every message of document number "file", each a fresh object.
addMessages(cat, messages, file) == addMessagesFrom(cat, messages, file, 1)

\* getMessageID: the id of a name, -1 for an unknown one.
getMessageID(name) ==
    IF name \in DOMAIN messagesByName THEN messagesByName[name].id ELSE -1

\* getMessageName: the name of an id, "" for an unknown one.
getMessageName(id) ==
    IF id \in DOMAIN messagesByID THEN messagesByID[id].name ELSE ""

\* startCharacter: the start sentinel of the configured version.
startCharacter ==
    IF version = "v1.0" THEN 254
    ELSE IF version = "v0.9" THEN 85
    ELSE -1

-----------------------------------------------------------------------------
(* Events.                                                                 *)

Event(type, name, id, arg, header, fields) ==
    [type |-> type, name |-> name, id |-> id, arg |-> arg, header |-> header,
     fields |-> fields]

NoHeader == [sequence |-> -1, system |-> -1, component |-> -1, length |-> -1]

EventsOfType(evs, type) == { i \in 1..Len(evs) : evs[i].type = type }

-----------------------------------------------------------------------------
(* Definition loading.                                                     *)

\* A variant of allParsed that tests with <= instead of ===: every callback up to
\* the last one passes the test.
allParsedUpTo(p) == p <= Len(definitions) - 1

\* The test of loadDefinitions that decides whether "ready" is emitted, on the value
\* of parsed before its increment.
allParsed(p) == p = Len(definitions) - 1

\* The callback of fs.readFile / parser.parseString for definition i, with the
\* outcome of the read and of the XML parse.
LoadDone(i, outcome) ==
    /\ i \in pending
    /\ pending' = pending \ {i}
    /\ op' = "load"
    /\ thrown' = "none"
    /\ IF outcome = "ok"
       THEN \E cat \in { addMessages([byID |-> messagesByID, byName |-> messagesByName,
                                     sums |-> messageChecksums],
                                    FileMessages(definitions[i]), i) } :
                /\ enums' = enums \o FileEnums(definitions[i])
                /\ messagesByID' = cat.byID
                /\ messagesByName' = cat.byName
                /\ messageChecksums' = cat.sums
                /\ parsed' = parsed + 1
                /\ IF allParsed(parsed)
                   THEN /\ readyCount' = readyCount + 1
                        /\ notified' = [c \in DOMAIN notified |->
                                          IF c \in listeners THEN notified[c] + 1
                                          ELSE notified[c]]
                        /\ emitted' = << Event("ready", "", -1, -1, NoHeader, << >>) >>
                   ELSE /\ emitted' = << >>
                        /\ UNCHANGED << readyCount, notified >>
       ELSE /\ emitted' = << >>
            /\ UNCHANGED << enums, messagesByID, messagesByName, messageChecksums,
                            parsed, readyCount, notified >>
    /\ UNCHANGED << configVars, parserVars, builderVars, listeners >>

\* A consumer calls on("ready", listener): the listener joins those that later
\* emits reach.  Consumers are numbered in the order in which they register.
RegisterReady(c) ==
    /\ c = Cardinality(listeners) + 1
    /\ listeners' = listeners \cup {c}
    /\ op' = "on"
    /\ thrown' = "none"
    /\ emitted' = << >>
    /\ UNCHANGED << configVars, parserVars, builderVars, catalogVars, loaderVars >>

-----------------------------------------------------------------------------
(* Codec primitives on payload buffers (0-based offsets, 1-based           *)
(* sequences).                                                             *)

Pow256(n) == CASE n = 0 -> 1 [] n = 1 -> 256 [] n = 2 -> 65536 [] n = 3 -> 16777216

\* buf.readUIntNLE(offset) for N = 8 * n bits.
RECURSIVE readUIntLE(_, _, _)
readUIntLE(buf, offset, n) ==
    IF n = 0 THEN 0
    ELSE buf[offset + 1] + 256 * readUIntLE(buf, offset + 1, n - 1)

\* The two's-complement reading of an unsigned value of n bytes.
toSigned(u, n) == IF u >= 128 * Pow256(n - 1) THEN u - 2 * 128 * Pow256(n - 1) ELSE u

\* buf.readIntNLE(offset): the two's-complement value of the same bytes.
readIntLE(buf, offset, n) == toSigned(readUIntLE(buf, offset, n), n)

\* buf.writeUIntNLE / writeIntNLE(value, offset): value is in the type's range.
RECURSIVE writeUIntLE(_, _, _, _)
writeUIntLE(buf, offset, n, value) ==
    IF n = 0 THEN buf
    ELSE writeUIntLE([buf EXCEPT ![offset + 1] = value % 256], offset + 1, n - 1,
                     value \div 256)

writeIntLE(buf, offset, n, value) ==
    writeUIntLE(buf, offset, n, IF value < 0 THEN value + 2 * 128 * Pow256(n - 1) ELSE value)

\* JavaScript's val1 << 32 on a 32-bit unsigned read: the shift count is taken
\* modulo 32, so the value is only reinterpreted as a signed 32-bit integer.
shiftLeft32(val1) ==
    IF val1 \div 16777216 >= 128 THEN ((val1 - 2147483647) - 2147483647) - 2 ELSE val1

\* The type switch of decodeMessage for one element at offset.
readElement(payload, offset, base) ==
    CASE base = "char"     -> readUIntLE(payload, offset, 1)
      [] base = "int8_t"   -> readIntLE(payload, offset, 1)
      [] base = "uint8_t"  -> readUIntLE(payload, offset, 1)
      [] base = "uint8_t_mavlink_version" -> readUIntLE(payload, offset, 1)
      [] base = "int16_t"  -> readIntLE(payload, offset, 2)
      [] base = "uint16_t" -> readUIntLE(payload, offset, 2)
      [] base = "int32_t"  -> readIntLE(payload, offset, 4)
      [] base = "uint32_t" -> readUIntLE(payload, offset, 4)
      [] base = "int64_t"  -> 0
      [] base = "uint64_t" -> shiftLeft32(readUIntLE(payload, offset, 4))
                              + readUIntLE(payload, offset + 4, 4)

\* The type switch of bufferField for one element at offset.
writeElement(buf, offset, base, value) ==
    CASE base = "char"     -> writeUIntLE(buf, offset, 1, value)
      [] base = "int8_t"   -> writeIntLE(buf, offset, 1, value)
      [] base = "uint8_t"  -> writeUIntLE(buf, offset, 1, value)
      [] base = "uint8_t_mavlink_version" -> writeUIntLE(buf, offset, 1, value)
      [] base = "int16_t"  -> writeIntLE(buf, offset, 2, value)
      [] base = "uint16_t" -> writeUIntLE(buf, offset, 2, value)
      [] base = "int32_t"  -> writeIntLE(buf, offset, 4, value)
      [] base = "uint32_t" -> writeUIntLE(buf, offset, 4, value)
      [] base = "int64_t"  -> buf
      [] base = "uint64_t" -> buf

\* Bytes the type switch of bufferField writes for one element.
bytesWritten(field) == IF field.base \in {"int64_t", "uint64_t"} THEN 0 ELSE field.typeLength

\* Bytes the type switch of decodeMessage reads for one element.
bytesRead(field) == IF field.base = "int64_t" THEN 0 ELSE field.typeLength

\* trim_buffer: cut after the last non-zero byte; position 0 when there is none.
trim_buffer(buf) ==
    LET nonzero == { i \in 0..(Len(buf) - 1) : buf[i + 1] # 0 }
        last(S) == CHOOSE i \in S : \A j \in S : j <= i
        pos == IF nonzero = {} THEN 0 ELSE last(nonzero)
    IN  SubSeq(buf, 1, IF pos + 1 <= Len(buf) THEN pos + 1 ELSE Len(buf))

\* The element loop of bufferField from element i on: the buffer after the writes, or
\* the RangeError of a write that does not fit the buffer.
RECURSIVE bufferElements(_, _, _, _, _)
bufferElements(buf, offset, field, valueArr, i) ==
    IF i > Len(valueArr) THEN [buf |-> buf, thrown |-> "none", missing |-> FALSE]
    ELSE IF bytesWritten(field) > 0 /\ offset + bytesWritten(field) > Len(buf)
    THEN [buf |-> buf, thrown |-> "RangeError", missing |-> FALSE]
    ELSE bufferElements(writeElement(buf, offset, field.base, valueArr[i]),
                        offset + field.typeLength, field, valueArr, i + 1)

\* bufferField: place a field's value (a scalar, an array or a string) in the payload.
bufferField(buf, offset, field, value) ==
    bufferElements(buf, offset, field, IF field.dim = 0 THEN << value >> ELSE value, 1)

-----------------------------------------------------------------------------
(* Payload decoding.                                                       *)

\* The mavlinkMessage constructor on the first length + 8 bytes of a buffer.
mavlinkMessage(buf) ==
    [length    |-> buf[2],
     sequence  |-> buf[3],
     system    |-> buf[4],
     component |-> buf[5],
     id        |-> buf[6],
     payload   |-> SubSeq(buf, 7, 6 + buf[2]),
     checksum  |-> readUInt16LE(buf, buf[2] + 6),
     buffer    |-> SubSeq(buf, 1, buf[2] + 8)]

HeaderOf(message) ==
    [sequence |-> message.sequence, system |-> message.system,
     component |-> message.component, length |-> message.length]

\* The rounds of the element loop of decodeMessage, "j < fields[i].arrayLength": none
\* for a field orderFields never annotated, whose arrayLength is undefined.
elementCount(field) == IF "arrayLength" \in DOMAIN field THEN field.arrayLength ELSE 0

\* The element loop of decodeMessage for one field: the values read, in order.
decodeElements(payload, offset, field) ==
    [j \in 1..elementCount(field) |->
        readElement(payload, offset + (j - 1) * field.typeLength, field.base)]

\* Whether some read of the element loop falls outside the payload.
decodeOutOfRange(payload, offset, field) ==
    /\ elementCount(field) > 0
    /\ bytesRead(field) > 0
    /\ offset + (field.arrayLength - 1) * field.typeLength + bytesRead(field) > Len(payload)

\* The value decodeMessage stores for one field. The array of a field without
\* arrayLength is new Array(undefined), one undefined element, a zero byte in a Buffer.
decodeField(payload, offset, field) ==
    IF field.dim = 0 THEN decodeElements(payload, offset, field)[1]
    ELSE IF elementCount(field) = 0 THEN << 0 >>
    ELSE IF field.base = "char" THEN trim_buffer(decodeElements(payload, offset, field))
    ELSE decodeElements(payload, offset, field)

\* The field map after the rounds of one field: a scalar whose loop made no round
\* was never assigned.
withField(values, payload, offset, field) ==
    IF field.dim = 0 /\ elementCount(field) = 0 THEN values
    ELSE (field.name :> decodeField(payload, offset, field)) @@ values

\* The offset after the rounds of one field.
offsetAfter(offset, field) ==
    IF elementCount(field) = 0 THEN offset
    ELSE offset + field.arrayLength * field.typeLength

\* The field loop of decodeMessage from field i on.
RECURSIVE decodeFields(_, _, _, _, _)
decodeFields(payload, fields, i, offset, values) ==
    IF i > Len(fields) THEN [values |-> values, thrown |-> "none"]
    ELSE IF decodeOutOfRange(payload, offset, fields[i])
    THEN [values |-> values, thrown |-> "RangeError"]
    ELSE decodeFields(payload, fields, i + 1, offsetAfter(offset, fields[i]),
                      withField(values, payload, offset, fields[i]))

\* decodeMessage: the field map of a message, or the exception it ends with (the
\* TypeError of reading .field of an id the catalog lacks, the RangeError of a read
\* past the payload).
decodeMessage(message) ==
    IF message.id \notin DOMAIN messagesByID
    THEN [values |-> << >>, thrown |-> "TypeError"]
    ELSE decodeFields(message.payload, messagesByID[message.id].field, 1, 0, << >>)

-----------------------------------------------------------------------------
(* The frame parser. The parser's fields travel as a record so that parse  *)
(* can run parseChar over a whole chunk within one step.                   *)

RxState ==
    [buffer |-> buffer, bufferIndex |-> bufferIndex, messageLength |-> messageLength,
     lastCounter |-> lastCounter, packet |-> << >>, emitted |-> << >>,
     thrown |-> "none"]

\* The buffer of checksummable data parseChar builds at the end of a packet.
crcBuffer(buf, length) ==
    IF version = "v1.0"
    THEN SubSeq(buf, 2, length + 6) \o << Lookup(messageChecksums, buf[6], 0) >>
    ELSE SubSeq(buf, 2, length + 6)

\* The statements that follow the validation: "We got a message, so reset things".
resetParser(rx) == [rx EXCEPT !.buffer = << >>, !.bufferIndex = 0, !.messageLength = 0]

\* The test that lets a checksum-valid frame through to the listeners.
passesFilter(message) ==
    \/ sysid = 0 /\ compid = 0
    \/ message.system = sysid /\ message.component = compid

\* A variant of sequenceEvents without the test buffer[2] > 0.
sequenceEventsFromZero(rx) ==
    IF rx.buffer[3] - rx.lastCounter # 1
    THEN << Event("sequenceError", "", -1, rx.buffer[3] - rx.lastCounter - 1, NoHeader, << >>) >>
    ELSE << >>

\* The events of a checksum-valid frame that precede the delivery.
sequenceEvents(rx) ==
    IF rx.buffer[3] > 0 /\ rx.buffer[3] - rx.lastCounter # 1
    THEN << Event("sequenceError", "", -1, rx.buffer[3] - rx.lastCounter - 1, NoHeader, << >>) >>
    ELSE << >>

\* The delivery of a checksum-valid frame that passed the filter: both events carry
\* decodeMessage's result. An exception of decodeMessage leaves parseChar before any
\* "message" event and before the reset.
deliver(rx, message, name, decoded) ==
    IF decoded.thrown # "none" THEN [rx EXCEPT !.thrown = decoded.thrown]
    ELSE resetParser(
           [rx EXCEPT !.emitted = rx.emitted \o
              << Event("message", name, message.id, -1, HeaderOf(message), decoded.values),
                 Event("named", name, message.id, -1, HeaderOf(message), decoded.values) >>])

\* A variant of accept that never updates lastCounter.
acceptWithoutCounter(rx, message) ==
    IF passesFilter(message)
    THEN deliver([rx EXCEPT !.emitted = rx.emitted \o sequenceEvents(rx)],
                 message, getMessageName(rx.buffer[6]), decodeMessage(message))
    ELSE resetParser([rx EXCEPT !.emitted = rx.emitted \o sequenceEvents(rx)])

\* The branch "checksum is good": the sequence check, the counter update, the filter.
accept(rx, message) ==
    IF passesFilter(message)
    THEN deliver([rx EXCEPT !.emitted = rx.emitted \o sequenceEvents(rx),
                            !.lastCounter = rx.buffer[3]],
                 message, getMessageName(rx.buffer[6]), decodeMessage(message))
    ELSE resetParser([rx EXCEPT !.emitted = rx.emitted \o sequenceEvents(rx),
                                !.lastCounter = rx.buffer[3]])

\* A variant of testChecksum in which the counter is updated before the checksum is
\* tested, so that a frame that fails the test still moves lastCounter.
testChecksumCounting(rx, computed, received) ==
    IF computed = received
    THEN accept(rx, mavlinkMessage(rx.buffer))
    ELSE resetParser(
           [rx EXCEPT !.lastCounter = rx.buffer[3],
                      !.emitted = rx.emitted \o
              << Event("checksumFail", "", rx.buffer[6], computed, NoHeader, << >>) >>])

\* "Test the checksum" on the checksum computed and the one received.
testChecksum(rx, computed, received) ==
    IF computed = received
    THEN accept(rx, mavlinkMessage(rx.buffer))
    ELSE resetParser(
           [rx EXCEPT !.emitted = rx.emitted \o
              << Event("checksumFail", "", rx.buffer[6], computed, NoHeader, << >>) >>])

\* The branch of parseChar taken at the end of a packet.
validatePacket(rx) ==
    testChecksum([rx EXCEPT !.packet = rx.buffer],
                 calculateChecksum(crcBuffer(rx.buffer, rx.messageLength)),
                 readUInt16LE(rx.buffer, rx.messageLength + 6))

\* "Receive everything else": the byte is stored while the packet is incomplete.
storeByte(rx, ch) ==
    IF rx.bufferIndex > 1 /\ rx.bufferIndex < rx.messageLength + 8
    THEN [rx EXCEPT !.buffer = Append(rx.buffer, ch), !.bufferIndex = rx.bufferIndex + 1]
    ELSE rx

\* "If we're at the end of the packet, see if it's valid".
endOfPacket(rx) ==
    IF rx.bufferIndex = rx.messageLength + 8 THEN validatePacket(rx) ELSE rx

\* A variant of parseChar that takes any byte for the start of a frame while it has
\* no data.
parseCharAnyStart(rx, ch) ==
    IF rx.bufferIndex = 0
    THEN [rx EXCEPT !.buffer = << ch >>, !.bufferIndex = 1]
    ELSE IF rx.bufferIndex = 1
    THEN [rx EXCEPT !.buffer = Append(rx.buffer, ch), !.messageLength = ch,
                    !.bufferIndex = 2]
    ELSE endOfPacket(storeByte(rx, ch))

\* parseChar: one byte through the parser.
parseChar(rx, ch) ==
    IF rx.bufferIndex = 0 /\ ch = startCharacter
    THEN [rx EXCEPT !.buffer = << ch >>, !.bufferIndex = 1]
    ELSE IF rx.bufferIndex = 1
    THEN [rx EXCEPT !.buffer = Append(rx.buffer, ch), !.messageLength = ch,
                    !.bufferIndex = 2]
    ELSE endOfPacket(storeByte(rx, ch))

\* parse: parseChar on every byte of the chunk; an exception ends the loop.
RECURSIVE parse(_, _, _)
parse(rx, chunk, i) ==
    IF i > Len(chunk) \/ rx.thrown # "none" THEN rx
    ELSE parse(parseChar(rx, chunk[i]), chunk, i + 1)

-----------------------------------------------------------------------------
(* The frame builder.                                                      *)

\* The field loop of createMessage from field i on: the payload, or why the loop was
\* left ("missing": a field without data, "RangeError": a write past the payload).
RECURSIVE fillPayload(_, _, _, _, _)
fillPayload(filled, fields, data, i, offset) ==
    IF filled.thrown # "none" \/ i > Len(fields) THEN filled
    ELSE IF fields[i].name \notin DOMAIN data THEN [filled EXCEPT !.missing = TRUE]
    ELSE fillPayload(
            [bufferField(filled.buf, offset, fields[i], data[fields[i].name])
                EXCEPT !.missing = FALSE],
            fields, data, i + 1, offset + fields[i].length)

\* "Determine sequence number": the counter after this.sequence++ and the wrap.
nextSequence(seq) == IF seq = 255 THEN 0 ELSE seq + 1

\* A variant of headerSequence in which the header is filled before the counter is
\* advanced.
headerSequenceBefore(seq) == seq

\* The sequence byte createMessage writes at offset 2, given the counter before the
\* call: the header is filled after the counter was advanced.
headerSequence(seq) == nextSequence(seq)

\* msgBuf.writeUInt16LE(crc, payloadLength + 6) after header and payload.
withChecksum(body, crc) == body \o << crc % 256, crc \div 256 >>

\* The frame createMessage assembles around a payload.
frameOf(message, id, seq, payload) ==
    withChecksum(<< startCharacter, message.payloadLength, seq, sysid, compid, id >>
                    \o payload,
                 calculateChecksum(<< message.payloadLength, seq, sysid, compid, id >>
                                      \o payload \o << Lookup(messageChecksums, id, 0) >>))

\* A variant of NotBuilt in which the counter is advanced before the lookup and the
\* field loop, so that a call that returns early has consumed a sequence number.
NotBuiltCounting(exception) ==
    [built |-> FALSE, frame |-> << >>, sequence |-> nextSequence(sequence),
     thrown |-> exception]

\* createMessage returning, or throwing, before it reaches the callback.
NotBuilt(exception) ==
    [built |-> FALSE, frame |-> << >>, sequence |-> sequence, thrown |-> exception]

\* A variant of finishMessage that does not leave for a field without data: the
\* field keeps the zero fill and the frame is built.
finishMessageZeroFilled(message, id, filled) ==
    IF filled.thrown # "none" THEN NotBuilt(filled.thrown)
    ELSE [built |-> TRUE,
          frame |-> frameOf(message, id, headerSequence(sequence), filled.buf),
          sequence |-> nextSequence(sequence),
          thrown |-> "none"]

\* createMessage after the field loop, up to the call of the callback.
finishMessage(message, id, filled) ==
    IF filled.missing THEN NotBuilt("none")
    ELSE IF filled.thrown # "none" THEN NotBuilt(filled.thrown)
    ELSE [built |-> TRUE,
          frame |-> frameOf(message, id, headerSequence(sequence), filled.buf),
          sequence |-> nextSequence(sequence),
          thrown |-> "none"]

\* createMessage once the id is known: the lookup of the message and the field loop.
createWithId(id, data) ==
    IF id \notin DOMAIN messagesByID THEN NotBuilt("none")
    ELSE finishMessage(messagesByID[id], id,
                       fillPayload([buf |-> [k \in 1..messagesByID[id].payloadLength |-> 0],
                                    thrown |-> "none", missing |-> FALSE],
                                   messagesByID[id].field, data, 1, 0))

\* createMessage up to the call of the callback: whether a frame was built, the
\* frame, the counter afterwards and the exception, if any.
createMessage(msgid, data) ==
    createWithId(IF msgid.kind = "name" THEN getMessageID(msgid.v) ELSE msgid.v, data)

-----------------------------------------------------------------------------
(* Inputs of the operations.                                               *)

ById(i) == [kind |-> "id", v |-> i]

ByName(n) == [kind |-> "name", v |-> n]

Call(msgid, data) == [msgid |-> msgid, data |-> data]

NoCall == Call(ById(-1), << >>)

\* The calls of createMessage that are tried: complete field maps for every message of
\* "common", unknown ids and names, field maps that lack a field, carry a key that
\* names no field, or hold a string longer than its char array.
Calls ==
    << Call(ById(0),     ("mavlink_version" :> 3)),
       Call(ByName("A"), ("x" :> -1) @@ ("y" :> 258)),
       Call(ById(2),     ("s" :> << 77, 89 >>) @@ ("v" :> 7)),
       Call(ByName("B"), ("s" :> << 77 >>) @@ ("v" :> 255)),
       Call(ById(2),     ("s" :> << >>) @@ ("v" :> 0)),
       Call(ByName("C"), ("t" :> 1)),
       Call(ById(9),     ("x" :> 1)),
       Call(ByName("Z"), ("x" :> 1)),
       Call(ById(1),     ("x" :> 5)),
       Call(ById(0),     ("mavlink_version" :> 3) @@ ("zz" :> 1)),
       Call(ById(2),     ("s" :> << 77, 89, 90 >>) @@ ("v" :> 7)),
       Call(ById(2),     ("s" :> << 77, 89, 90, 91 >>) @@ ("v" :> 7)) >>

\* The bytes fed one at a time: the v1.0 start sentinel, which is also a length of
\* 254 and an id no message has, and 0 and 1 as lengths, sequence numbers, ids of the
\* sender and message ids.
WireBytes == {254, 0, 1}

\* The byte that, next in the frame being received, continues a matching checksum.
TrailerBytes ==
    IF bufferIndex >= 6 /\ bufferIndex = messageLength + 6
    THEN { calculateChecksum(crcBuffer(buffer, messageLength)) % 256 }
    ELSE IF bufferIndex >= 7 /\ bufferIndex = messageLength + 7
    THEN { calculateChecksum(crcBuffer(buffer, messageLength)) \div 256 }
    ELSE {}

\* A frame as a peer sends it: the checksum is right for the seed the receiver's
\* catalog holds for the id (0 for an id it lacks) or, with ok false, off by one bit.
PeerTrailer(crc, ok) == << IF ok THEN crc % 256 ELSE BitXor(crc % 256, 1), crc \div 256 >>

PeerFrame(seq, sys, comp, id, payload, ok) ==
    << startCharacter, Len(payload), seq, sys, comp, id >> \o payload
    \o PeerTrailer(calculateChecksum(<< Len(payload), seq, sys, comp, id >> \o payload
                                     \o (IF version = "v1.0"
                                         THEN << Lookup(messageChecksums, id, 0) >>
                                         ELSE << >>)),
                   ok)

\* The frames fed whole while definitions load: HB of "common" and D of
\* "ardupilotmega", from the configured sender.
LoadFrames ==
    { PeerFrame(1, 1, 1, id, << 3 >>, TRUE) : id \in {0, 4} }

\* A frame with bit number "bit" of its byte number p inverted on the way.
FlipBit(frame, p, bit) == [frame EXCEPT ![p] = BitXor(frame[p], 2 ^ bit)]

\* The frames a peer sends to an idle parser: every pair of sequence bytes among 0, 1
\* and 255 can follow one another; the sender is the configured one or another; the
\* frame is a HB, a HB cut short of its payload, or of an id no file defines; the
\* trailer is right or wrong.
SeqBytes == {0, 1, 255}

Senders == { << 1, 1 >>, << 2, 1 >> }

Contents ==
    { [id |-> 0, payload |-> << 3 >>], [id |-> 0, payload |-> << >>],
      [id |-> 9, payload |-> << >>] }

PeerFrames ==
    { PeerFrame(seq, s[1], s[2], c.id, c.payload, ok) :
         seq \in SeqBytes, s \in Senders, c \in Contents, ok \in BOOLEAN }

\* A HB of the configured sender with one bit of a byte before its trailer inverted.
FlippedFrames ==
    { FlipBit(PeerFrame(1, 1, 1, 0, << 3 >>, TRUE), p, bit) : p \in 1..7, bit \in 0..7 }

-----------------------------------------------------------------------------
(* Operations.                                                             *)

InitWith(ver, defs, ids, mode) ==
    /\ version = ver
    /\ sysid = ids[1]
    /\ compid = ids[2]
    /\ definitions = defs
    /\ cbMode = mode
    /\ buffer = << >>
    /\ bufferIndex = 0
    /\ messageLength = 0
    /\ sequence = 0
    /\ messagesByID = << >>
    /\ messagesByName = << >>
    /\ enums = << >>
    /\ messageChecksums = << >>
    /\ pending = 1..Len(defs)
    /\ parsed = 0
    /\ lastCounter = 0
    /\ listeners = {}
    /\ notified = [c \in 1..MaxConsumers |-> 0]
    /\ readyCount = 0
    /\ emitted = << >>
    /\ packet = << >>
    /\ fed = << >>
    /\ thrown = "none"
    /\ op = "new"
    /\ cbFrame = << >>
    /\ cbData = NoCall
    /\ lastSeqByte = -1
    /\ prevSeqByte = -1

\* The parser's fields after a run of parse.
SetParser(rx) ==
    /\ buffer' = rx.buffer
    /\ bufferIndex' = rx.bufferIndex
    /\ messageLength' = rx.messageLength
    /\ lastCounter' = rx.lastCounter
    /\ packet' = rx.packet

\* parse(chunk), called by the transport's data handler.
Feed(chunk) ==
    \E rx \in { parse(RxState, chunk, 1) } :
        /\ SetParser(rx)
        /\ fed' = chunk
        /\ emitted' = rx.emitted
        /\ thrown' = rx.thrown
        /\ op' = "parse"
        /\ UNCHANGED << configVars, builderVars, catalogVars, loaderVars, listeners >>

\* parse on a chunk of one byte, once every definition's load has ended.
FeedByte(b) ==
    /\ pending = {}
    /\ bufferIndex < MaxStored
    /\ Feed(<< b >>)

\* parse on a chunk that is one whole frame.
FeedFrame(frame) == Feed(frame)

\* parse on a chunk that is one whole frame, arriving while the parser looks for a
\* start sentinel and after every definition's load has ended.
FeedIdle(frame) ==
    /\ pending = {}
    /\ bufferIndex = 0
    /\ Feed(frame)

\* createMessage(msgid, data, cb): cb keeps the frame ("echo") or hands its bytes
\* to parse of the same instance ("loopback").
CreateMessage(call) ==
    \E r \in { createMessage(call.msgid, call.data) } :
    \E rx \in { IF r.built /\ cbMode = "loopback" THEN parse(RxState, r.frame, 1)
                ELSE RxState } :
        /\ sequence' = r.sequence
        /\ cbFrame' = r.frame
        /\ cbData' = call
        /\ lastSeqByte' = IF r.built THEN r.frame[3] ELSE lastSeqByte
        /\ prevSeqByte' = IF r.built THEN lastSeqByte ELSE prevSeqByte
        /\ SetParser(rx)
        /\ fed' = IF r.built /\ cbMode = "loopback" THEN r.frame ELSE << >>
        /\ emitted' = rx.emitted
        /\ thrown' = IF r.thrown # "none" THEN r.thrown ELSE rx.thrown
        /\ op' = "createMessage"
        /\ UNCHANGED << configVars, catalogVars, loaderVars, listeners >>

Outcomes == {"ok", "readError", "parseError"}

-----------------------------------------------------------------------------
(* Specifications.                                                         *)

\* The builder: one definition file, a configured or an unconfigured sender, frames
\* kept by the callback or looped back into the instance's own parser.
InitBuild ==
    \/ \E mode \in {"echo", "loopback"} :
          InitWith("v1.0", << "common" >>, << 1, 1 >>, mode)
    \/ InitWith("v1.0", << "common" >>, << 0, 0 >>, "echo")

NextBuild ==
    \/ \E o \in Outcomes : LoadDone(1, o)
    \/ \E k \in 1..Len(Calls) : CreateMessage(Calls[k])

SpecBuild == InitBuild /\ [][NextBuild]_vars

\* The parser fed byte by byte.
InitParse == InitWith("v1.0", << "common" >>, << 1, 1 >>, "echo")

NextParse ==
    \/ \E o \in Outcomes : LoadDone(1, o)
    \/ \E b \in WireBytes \cup TrailerBytes : FeedByte(b)

SpecParse == InitParse /\ [][NextParse]_vars

\* The parser fed whole frames while it is idle, on a filtering and on a promiscuous
\* instance.
InitFrames ==
    \E ids \in { << 1, 1 >>, << 0, 0 >> } : InitWith("v1.0", << "common" >>, ids, "echo")

NextFrames ==
    \/ \E o \in Outcomes : LoadDone(1, o)
    \/ \E f \in PeerFrames : FeedIdle(f)
    \/ \E f \in FlippedFrames : FeedIdle(f)

SpecFrames == InitFrames /\ [][NextFrames]_vars

\* The loader: up to MaxDefs definition files in any completion order and with any
\* outcome, consumers registering for "ready" at any time, frames arriving at any time.
MaxDefs == 2

Files == {"common", "ardupilotmega", "custom"}

\* The protocol versions the constructor is given.
Versions == {"v1.0", "v0.9"}

InitLoad ==
    \E ver \in Versions, n \in 0..MaxDefs : \E defs \in [1..n -> Files] :
        /\ \A i, j \in 1..n : defs[i] = defs[j] => i = j
        /\ InitWith(ver, defs, << 1, 1 >>, "echo")

NextLoad ==
    \/ \E i \in 1..Len(definitions), o \in Outcomes : LoadDone(i, o)
    \/ \E c \in 1..MaxConsumers : RegisterReady(c)
    \/ \E f \in LoadFrames : FeedFrame(f)

SpecLoad == InitLoad /\ [][NextLoad]_vars

-----------------------------------------------------------------------------
(* Properties of the builder, checked under SpecBuild.                     *)

\* The descriptor the last createMessage resolved, when it built a frame.
BuiltMessage == messagesByID[cbFrame[6]]

\* The last operation was a createMessage that handed a frame to its callback.
FrameBuilt == op = "createMessage" /\ cbFrame # << >>

\* A byte string without its trailing zero bytes.
RECURSIVE StripZeros(_)
StripZeros(str) ==
    IF str = << >> THEN str
    ELSE IF str[Len(str)] = 0 THEN StripZeros(SubSeq(str, 1, Len(str) - 1))
    ELSE str

\* A field's value as the round trip compares it.
Normal(field, value) ==
    IF field.base = "char" /\ field.dim # 0 THEN StripZeros(value) ELSE value

\* The field map of the last createMessage names exactly the fields of the message,
\* and every string fits its char array.
DataFits ==
    /\ DOMAIN cbData.data = { BuiltMessage.field[i].name : i \in 1..Len(BuiltMessage.field) }
    /\ \A i \in 1..Len(BuiltMessage.field) :
          BuiltMessage.field[i].base = "char"
             => Len(cbData.data[BuiltMessage.field[i].name]) <= BuiltMessage.field[i].arrayLength

SameFields(values) ==
    /\ DOMAIN values = DOMAIN cbData.data
    /\ \A i \in 1..Len(BuiltMessage.field) :
          Normal(BuiltMessage.field[i], values[BuiltMessage.field[i].name])
             = Normal(BuiltMessage.field[i], cbData.data[BuiltMessage.field[i].name])

\* C1: a frame built from a field map that supplies every field of the message and
\* fed to parse of an instance with the same catalog (unfiltered or with matching ids)
\* is delivered as exactly one "message" event whose field map equals the one given,
\* char arrays compared without their trailing zero bytes.
C1_RoundTrip ==
    (FrameBuilt /\ cbMode = "loopback" /\ DataFits)
       => /\ Cardinality(EventsOfType(emitted, "message")) = 1
          /\ \A i \in EventsOfType(emitted, "message") : SameFields(emitted[i].fields)

\* C2: the sequence bytes of the frames handed to the callback by successive
\* successful calls of createMessage go up by one modulo 256, and a call that hands
\* over no frame leaves the sequence counter as it was.
C2_SequenceLaw ==
    [][ /\ (op' = "createMessage" /\ cbFrame' # << >> /\ lastSeqByte # -1)
             => cbFrame'[3] = (lastSeqByte + 1) % 256
        /\ (op' = "createMessage" /\ cbFrame' = << >>)
             => sequence' = sequence ]_vars

\* C2 witness: the counter has wrapped from 255 to 0, and the call after that failed.
C2_Witness ==
    /\ prevSeqByte = 255
    /\ lastSeqByte = 0
    /\ op = "createMessage"
    /\ cbFrame = << >>

\* The first frame of the instance was built by the last operation.
FirstFrame == FrameBuilt /\ prevSeqByte = -1

C4_NoFrameWhenUnconfigured ==
    (sysid = 0 /\ compid = 0) => (lastSeqByte = -1 /\ sequence = 0)

-----------------------------------------------------------------------------
(* Properties of the parser, checked under SpecParse.                      *)

\* C5: a complete frame whose id byte has no descriptor in the catalog is answered
\* with one checksum-fail event, no "message" event, and is dropped.
C5_UnknownIdRejected ==
    (op = "parse" /\ packet # << >> /\ packet[6] \notin DOMAIN messagesByID)
       => /\ EventsOfType(emitted, "message") = {}
          /\ Cardinality(EventsOfType(emitted, "checksumFail")) = 1
          /\ thrown = "none"
          /\ bufferIndex = 0

\* C6: parse never throws, and between two bytes the parser never rests at the end
\* of a packet: a frame that reached messageLength + 8 stored bytes was validated and
\* the cursor and the length were reset.
C6_ParserReturnsToIdle ==
    op = "parse" => (thrown = "none" /\ bufferIndex < messageLength + 8)

-----------------------------------------------------------------------------
(* Properties of the loader, checked under SpecLoad.                       *)

\* C7: no "message" event and no event named after a message is dispatched before
\* the instance has emitted "ready".
C7_ReadyBeforeMessage ==
    (EventsOfType(emitted, "message") \cup EventsOfType(emitted, "named")) # {}
       => readyCount >= 1

\* C8: once "ready" has been emitted, every consumer registered for it, before or
\* after, has received it exactly once.
C8_LateRegistrationNotified ==
    \A c \in listeners : readyCount >= 1 => notified[c] = 1

\* C9: "ready" is emitted at most once, and no consumer receives it twice.
C9_ReadyAtMostOnce ==
    /\ readyCount <= 1
    /\ \A c \in DOMAIN notified : notified[c] <= 1

\* C9 witness: two definitions were loaded, "ready" was emitted and reached a
\* consumer registered in time.
C9_Witness ==
    /\ Len(definitions) = 2
    /\ pending = {}
    /\ readyCount = 1
    /\ \E c \in listeners : notified[c] = 1

\* C10: messagesByID and messagesByName hold the same descriptors: each name leads to
\* the descriptor its id leads to, and each id to the descriptor its name leads to.
C10_CatalogConsistent ==
    /\ \A n \in DOMAIN messagesByName :
          /\ messagesByName[n].id \in DOMAIN messagesByID
          /\ messagesByID[messagesByName[n].id] = messagesByName[n]
    /\ \A i \in DOMAIN messagesByID :
          /\ messagesByID[i].name \in DOMAIN messagesByName
          /\ messagesByName[messagesByID[i].name] = messagesByID[i]

-----------------------------------------------------------------------------
(* Properties of the parser on whole frames, checked under SpecFrames.     *)

\* The checksum a receiver computes for a frame: the X.25 CRC of its bytes after the
\* start sentinel up to the end of the payload, followed by the seed the catalog
\* holds for the frame's id (0 when it holds none).
ExpectedChecksum(frame) ==
    calculateChecksum(SubSeq(frame, 2, frame[2] + 6)
                      \o << Lookup(messageChecksums, frame[6], 0) >>)

\* The little-endian u16 that ends a frame.
TrailerOf(frame) == frame[frame[2] + 7] + 256 * frame[frame[2] + 8]

\* The last operation was a parse that validated a frame whose checksum matches.
ValidatedGood == op = "parse" /\ packet # << >> /\ ExpectedChecksum(packet) = TrailerOf(packet)

\* The frame validated last passes the instance's filter on its origin.
WantedOrigin ==
    \/ sysid = 0 /\ compid = 0
    \/ packet[4] = sysid /\ packet[5] = compid

MessageEvents == EventsOfType(emitted, "message") \cup EventsOfType(emitted, "named")

\* C11: a complete frame whose checksum matches is delivered iff the instance is
\* promiscuous or the frame's system and component bytes equal the configured ids;
\* a delivery is the "message" event followed by the event named after the message,
\* both with the frame's header and the same field map, and nothing else is a message
\* event.
C11_DeliveryFilter ==
    ValidatedGood =>
       IF WantedOrigin
       THEN /\ Cardinality(MessageEvents) = 2
            /\ \E i \in 1..(Len(emitted) - 1) :
                  /\ emitted[i].type = "message"
                  /\ emitted[i + 1].type = "named"
                  /\ emitted[i + 1].name = emitted[i].name
                  /\ emitted[i].header = HeaderOf(mavlinkMessage(packet))
                  /\ emitted[i + 1].header = emitted[i].header
                  /\ emitted[i + 1].fields = emitted[i].fields
       ELSE MessageEvents = {}

\* The last operation was a parse that validated a frame whose checksum differs.
ValidatedBad == op = "parse" /\ packet # << >> /\ ExpectedChecksum(packet) # TrailerOf(packet)

\* C12: a frame whose computed checksum differs from its trailer raises exactly one
\* checksum-fail event, carrying the frame's id byte, and no other event; the parser
\* is reset, and the step that raises the event leaves lastCounter as it was.
C12_MismatchDropsFrame ==
    /\ [](ValidatedBad
             => /\ Len(emitted) = 1
                /\ emitted[1].type = "checksumFail"
                /\ emitted[1].id = packet[6]
                /\ thrown = "none"
                /\ bufferIndex = 0)
    /\ [][ (op' = "parse" /\ EventsOfType(emitted', "checksumFail") # {})
              => lastCounter' = lastCounter ]_vars

\* C12 witness: a frame with a wrong trailer was dropped after a frame with sequence
\* byte 255 had been accepted, and its own sequence byte is another one.
C12_Witness == ValidatedBad /\ lastCounter = 255 /\ packet[3] = 1

\* A frame of a message of the catalog, of that message's payload length, whose
\* trailer is the checksum a receiver computes.
WellFormed(frame) ==
    /\ Len(frame) >= 8
    /\ frame[1] = startCharacter
    /\ Len(frame) = frame[2] + 8
    /\ frame[6] \in DOMAIN messagesByID
    /\ frame[2] = messagesByID[frame[6]].payloadLength
    /\ ExpectedChecksum(frame) = TrailerOf(frame)

\* The bytes parse was last given are a well-formed frame but for one inverted bit in
\* a byte at one of the positions (1 is the start byte, 2 the length, 3 the sequence,
\* 4 and 5 the origin, 6 the id, 7 onwards the payload).
FlippedAt(positions) ==
    \E p \in positions \cap (1..(Len(fed) - 2)), bit \in 0..7 :
        WellFormed(FlipBit(fed, p, bit))

\* C13 as stated: a valid frame with one bit inverted in any byte before the trailer,
\* fed to an idle parser (as every frame is under SpecFrames), raises a checksum-fail
\* event and no "message" event.
C13_BitFlipDetected ==
    (op = "parse" /\ FlippedAt(1..(Len(fed) - 2)))
       => /\ EventsOfType(emitted, "checksumFail") # {}
          /\ EventsOfType(emitted, "message") = {}

\* C13 as amended: a valid frame with one bit inverted in its sequence byte, its
\* system byte, its component byte or a payload byte, fed to an idle parser, raises
\* exactly one event, the checksum-fail event for the frame's id, and the parser is
\* idle again afterwards.
C13_CoveredBitFlipDetected ==
    (op = "parse" /\ FlippedAt({3, 4, 5} \cup (7..(Len(fed) - 2))))
       => /\ Len(emitted) = 1
          /\ emitted[1].type = "checksumFail"
          /\ emitted[1].id = fed[6]
          /\ thrown = "none"
          /\ bufferIndex = 0

\* C13 witness: a frame with one payload bit inverted was fed and rejected.
C13_Witness ==
    /\ op = "parse"
    /\ FlippedAt(7..(Len(fed) - 2))
    /\ EventsOfType(emitted, "checksumFail") # {}

\* C14: every sequence-error event carries a gap in 0..255.
C14_GapIsAByte ==
    \A i \in EventsOfType(emitted, "sequenceError") : emitted[i].arg \in 0..255

\* C15: a validated frame raises no checksum-fail event exactly when its checksum
\* matches; such a frame, with sequence byte seq, raises a sequence-error event iff
\* seq # 0 and (seq - lastCounter) mod 256 # 1, lastCounter being the value before the
\* frame, and afterwards lastCounter is seq.
C15_SequenceErrorCondition ==
    /\ []((op = "parse" /\ packet # << >>)
             => /\ ValidatedGood <=> EventsOfType(emitted, "checksumFail") = {}
                /\ ValidatedGood => lastCounter = packet[3])
    /\ [][ (op' = "parse" /\ packet' # << >> /\ EventsOfType(emitted', "checksumFail") = {})
              => (EventsOfType(emitted', "sequenceError") # {}
                    <=> (packet'[3] # 0 /\ (packet'[3] - lastCounter) % 256 # 1)) ]_vars

\* C15 witness: a frame with sequence byte 1 was accepted after one with sequence
\* byte 255 and raised a sequence error (the raw difference shows both bytes).
C15_Witness ==
    /\ ValidatedGood
    /\ \E i \in EventsOfType(emitted, "sequenceError") : emitted[i].arg = -255
    /\ lastCounter = 1

-----------------------------------------------------------------------------
(* Further properties of the builder, checked under SpecBuild.             *)

\* The id the last createMessage resolved its first argument to.
ResolvedId ==
    IF cbData.msgid.kind = "name" THEN getMessageID(cbData.msgid.v) ELSE cbData.msgid.v

\* The last operation was a createMessage for a message of the catalog.
CalledKnown == op = "createMessage" /\ ResolvedId \in DOMAIN messagesByID

ResolvedFields == messagesByID[ResolvedId].field

FieldNames == { ResolvedFields[i].name : i \in 1..Len(ResolvedFields) }

\* The field map of the last createMessage lacks a field of the message.
LacksField == CalledKnown /\ FieldNames \ DOMAIN cbData.data # {}

\* The payload the field loop of createMessage fills from a field map.
PayloadOf(data) ==
    fillPayload([buf |-> [k \in 1..messagesByID[ResolvedId].payloadLength |-> 0],
                 thrown |-> "none", missing |-> FALSE],
                ResolvedFields, data, 1, 0)

\* A field map without the keys that name no field of the message.
OwnKeys(data) == [k \in DOMAIN data \cap FieldNames |-> data[k]]

\* C16: a createMessage whose field map lacks a field of the resolved message hands
\* no frame to the callback, raises no event and leaves the sequence counter as it
\* was; keys that name no field do not change the frame that is built.
C16_MissingFieldFails ==
    /\ [](LacksField => (cbFrame = << >> /\ fed = << >> /\ emitted = << >>))
    /\ []((FrameBuilt /\ DOMAIN cbData.data \ FieldNames # {})
             => cbFrame = frameOf(BuiltMessage, BuiltMessage.id, cbFrame[3],
                                  PayloadOf(OwnKeys(cbData.data)).buf))
    /\ [][ (op' = "createMessage" /\ cbFrame' = << >>) => sequence' = sequence ]_vars

\* C16 witness: after a frame was built, a call whose field map lacks a field failed.
C16_Witness == LacksField /\ lastSeqByte = 1 /\ sequence = 1

\* A field map with every string cut to the length of its char array.
Truncated(data) ==
    [k \in DOMAIN data |->
        IF \E i \in 1..Len(ResolvedFields) :
              /\ ResolvedFields[i].name = k
              /\ ResolvedFields[i].base = "char"
              /\ ResolvedFields[i].dim # 0
              /\ Len(data[k]) > ResolvedFields[i].arrayLength
        THEN SubSeq(data[k], 1,
                    (CHOOSE f \in { ResolvedFields[i] : i \in 1..Len(ResolvedFields) } :
                        f.name = k).arrayLength)
        ELSE data[k]]

\* The last createMessage was given every field, one of them a string longer than
\* its char array.
Overlong ==
    /\ CalledKnown
    /\ FieldNames \subseteq DOMAIN cbData.data
    /\ Truncated(cbData.data) # cbData.data

\* C18: a createMessage given a string longer than its char[N] field builds a frame
\* of payloadLength + 8 bytes whose payload is the one built from the first N
\* characters of the string.
C18_OverlongTruncated ==
    Overlong
       => /\ Len(cbFrame) = messagesByID[ResolvedId].payloadLength + 8
          /\ SubSeq(cbFrame, 7, Len(cbFrame) - 2) = PayloadOf(Truncated(cbData.data)).buf

\* The offset of field number k in the payload.
RECURSIVE FieldOffset(_, _)
FieldOffset(fields, k) ==
    IF k = 1 THEN 0 ELSE FieldOffset(fields, k - 1) + fields[k - 1].length

\* The bytes of field number k in the payload of the frame validated last.
RawField(fields, k) ==
    SubSeq(packet, 7 + FieldOffset(fields, k),
           6 + FieldOffset(fields, k) + fields[k].length)

\* C19: the string delivered for a char-array field is the field's bytes up to the
\* last non-zero one, the empty string when every byte is zero.
C19_CharArrayTrimmed ==
    \A i \in EventsOfType(emitted, "message") :
       \A k \in 1..Len(messagesByID[emitted[i].id].field) :
          (messagesByID[emitted[i].id].field[k].base = "char"
              /\ messagesByID[emitted[i].id].field[k].dim # 0)
             => emitted[i].fields[messagesByID[emitted[i].id].field[k].name]
                   = StripZeros(RawField(messagesByID[emitted[i].id].field, k))

-----------------------------------------------------------------------------
(* Further properties of the parser, checked under SpecParse.              *)

\* The parser after the two bytes b1, b2 in one call of parse, and in two calls.
InOneCall(b1, b2) == parse(RxState, << b1, b2 >>, 1)

InTwoCalls(b1, b2) ==
    parse([parse(RxState, << b1 >>, 1) EXCEPT !.thrown = "none"], << b2 >>, 1)

\* C17: from any state of the parser, two bytes raise the same events and leave the
\* same parser state whether they come in one call of parse or in two.
C17_ChunkingInvariance ==
    \A b1 \in WireBytes \cup TrailerBytes, b2 \in WireBytes :
        /\ InOneCall(b1, b2).emitted = InTwoCalls(b1, b2).emitted
        /\ InOneCall(b1, b2).buffer = InTwoCalls(b1, b2).buffer
        /\ InOneCall(b1, b2).bufferIndex = InTwoCalls(b1, b2).bufferIndex
        /\ InOneCall(b1, b2).messageLength = InTwoCalls(b1, b2).messageLength
        /\ InOneCall(b1, b2).lastCounter = InTwoCalls(b1, b2).lastCounter

-----------------------------------------------------------------------------
(* Further properties of the loader, checked under SpecLoad.               *)

\* orderFields has run on the descriptor: lengths are there, the payload length is
\* their sum, the fields go by descending type length, ties in schema order.
LaidOut(message) ==
    /\ "payloadLength" \in DOMAIN message
    /\ \A i \in 1..Len(message.field) :
          {"typeLength", "arrayLength", "length", "initialPos"} \subseteq DOMAIN message.field[i]
    /\ message.payloadLength
          = sumLength([i \in 1..Len(message.field) |->
                         [length |-> message.field[i].typeLength
                                     * message.field[i].arrayLength]], 1)
    /\ \A i, j \in 1..Len(message.field) :
          i < j => \/ message.field[i].typeLength > message.field[j].typeLength
                   \/ /\ message.field[i].typeLength = message.field[j].typeLength
                      /\ message.field[i].initialPos < message.field[j].initialPos

\* C20: every descriptor of the catalog, in either protocol version, is laid out.
C20_CatalogLaidOut ==
    \A id \in DOMAIN messagesByID : LaidOut(messagesByID[id])

-----------------------------------------------------------------------------
(* Resynchronisation and the receive buffer, checked under SpecParse.      *)

\* Runs of bytes none of which is the start sentinel.
GarbageRuns == { << 0 >>, << 1, 0 >> }

\* The frame of the configured sender that follows the garbage.
ResyncFrames == { PeerFrame(1, 1, 1, 0, << 3 >>, TRUE) }

\* C21: a byte other than the start sentinel that reaches the idle parser raises no
\* event and leaves the cursor, the length and lastCounter as they were; from every
\* idle state a frame that follows a run of such bytes in the same chunk has the
\* outcome it has without them.
C21_GarbageSkipped ==
    /\ [][ (bufferIndex = 0 /\ op' = "parse" /\ Len(fed') = 1 /\ fed'[1] # startCharacter)
              => /\ emitted' = << >>
                 /\ thrown' = "none"
                 /\ bufferIndex' = 0
                 /\ messageLength' = messageLength
                 /\ lastCounter' = lastCounter
                 /\ buffer' = buffer ]_vars
    /\ [](bufferIndex = 0
             => \A c \in { << rx, g \o f, f >> :
                              rx \in {RxState}, g \in GarbageRuns, f \in ResyncFrames } :
                   parse(c[1], c[2], 1) = parse(c[1], c[3], 1))

\* C21 witness: after a frame with sequence byte 1 was accepted, a zero byte reached
\* the idle parser.
C21_Witness ==
    /\ op = "parse"
    /\ fed = << 0 >>
    /\ packet = << >>
    /\ bufferIndex = 0
    /\ lastCounter = 1

\* C22: between two calls of parseChar the cursor is within 0..262, and once two
\* bytes are stored it is below messageLength + 8 with messageLength the byte stored
\* second.
C22_ReceiveBufferBound ==
    /\ bufferIndex \in 0..262
    /\ bufferIndex >= 2 => /\ bufferIndex < messageLength + 8
                           /\ messageLength = buffer[2]

-----------------------------------------------------------------------------
(* The builder's frames in the instance's own parser, checked under         *)
(* SpecBuild.                                                               *)

\* C23: when every frame the builder hands out goes, in build order, into the parser
\* of the same instance, no sequenceError is raised, and the parser's lastCounter is
\* the sequence byte of the frame just built, which it delivered.
C23_BuilderParserAgree ==
    cbMode = "loopback"
        => /\ EventsOfType(emitted, "sequenceError") = {}
           /\ FrameBuilt => /\ lastCounter = lastSeqByte
                            /\ EventsOfType(emitted, "message") # {}

\* C23 witness: the frame after the wrap, with sequence byte 1 after sequence byte 0,
\* went through the parser.
C23_Witness ==
    /\ cbMode = "loopback"
    /\ FrameBuilt
    /\ prevSeqByte = 0
    /\ lastSeqByte = 1
    /\ fed = cbFrame
    /\ lastCounter = 1

====
